---- MODULE Spec2Model ----
(***************************************************************************)
(* A model of ECOSEigen (src/src/ecos.cpp, src/include/ecos.hpp): the      *)
(* interior-point driver solve(), its termination test, the statistics,    *)
(* the conic line search and the projection into the cone.                 *)
(*                                                                         *)
(* Numbers.  A double that belongs to the iterate, to a tolerance or to a  *)
(* step length is an integer count of Unit-ths (Unit = 10^9, so feastol =  *)
(* 1e-8 is 10).  Quotients and products round towards zero to that         *)
(* resolution.  Components of a search direction are whole numbers, so     *)
(* step * direction is exact.  A value that only takes part in             *)
(* comparisons above every tolerance is held saturated (Sat, AlphaSat).    *)
(*                                                                         *)
(* The sparse LDLT factorizer is a collaborator: whether factorize()       *)
(* succeeds and what solve() returns are inputs of the actions.  x, y and  *)
(* the problem data c, G, h, A, b are not state; the dot products and      *)
(* norms formed from them are inputs as well.                              *)
(*                                                                         *)
(* The Nesterov-Todd scaling W needs square roots.  W is an automorphism   *)
(* of the cone with s = W lambda and z = W^-1 lambda, so every quotient    *)
(* the line search forms from (lambda, W\ds, W dz) equals the quotient     *)
(* formed from (s, ds) or (z, dz) at the point where the scaling was       *)
(* computed.  The model keeps that point (lambda.s, lambda.z) in place of  *)
(* lambda and W, and unscaled directions in place of scaled ones.  Norms   *)
(* of cone tails are exact for second-order cones of dimension <= 2.       *)
(***************************************************************************)
EXTENDS Integers, Sequences, FiniteSets, TLC

Unit == 10^9

(* ---- Settings (ecos.hpp), in Unit-ths ---- *)
gamma == 990000000
feastol == 10
abstol == 10
reltol == 10
feastol_inacc == 100000
abstol_inacc == 50000
reltol_inacc == 50000
maxit == 100
stepmin == 1000
stepmax == 999000000

(* ---- bounds of the model ---- *)
\* rows of G (m): the LP block is what soc_dims leaves over
num_ineq == 3
\* largest value the uninitialised info.iter_max takes in Spec
MaxIterMax == 2
\* magnitude of the large components a KKT solve returns
BigDir == 1050000
\* largest value of the norms max(nx,1), max(ny+nz,1), max(nx+ns,1)
MaxNorm == 1

(* ---- the problem instance ---- *)
\* one second-order cone of dimension 2, one equality constraint
soc_dims == <<2>>
b == <<1>>

\* saturation value of sums that are only compared with tolerances
Sat == Unit
\* 1/eps = 1e13 and the default 10. of lineSearch: larger than any step that
\* survives the final clamp to stepmax
AlphaSat == 2 * Unit
\* range of the iterate components the model follows
MaxVal == Unit + Unit \div 20

Abs(a) == IF a < 0 THEN -a ELSE a
Min2(a, c) == IF a < c THEN a ELSE c
Max2(a, c) == IF a > c THEN a ELSE c
MinSet(S) == CHOOSE a \in S : \A c \in S : a <= c
MaxSet(S) == CHOOSE a \in S : \A c \in S : a >= c
Clamp(v, lo, hi) == IF v < lo THEN lo ELSE IF hi < v THEN hi ELSE v

RECURSIVE SumSeq(_)
SumSeq(q) == IF q = << >> THEN 0 ELSE Head(q) + SumSeq(Tail(q))

\* a * c for two Unit-th quantities 0 <= a, c <= MaxVal, rounded down; the
\* product is formed on base-10^4 digits so that no intermediate value
\* leaves the 32-bit range
MulU(a, c) ==
    LET B == 10^4
        a0 == a % B
        a1 == (a \div B) % B
        a2 == a \div (B * B)
        c0 == c % B
        c1 == (c \div B) % B
        c2 == c \div (B * B)
        p0 == a0 * c0
        p1 == a0 * c1 + a1 * c0
        p2 == a0 * c2 + a1 * c1 + a2 * c0
        p3 == a1 * c2 + a2 * c1
        p4 == a2 * c2
        t1 == p1 + p0 \div B
        t2 == p2 + t1 \div B
    IN p4 * 10^7 + p3 * 1000 + t2 \div 10

(* ---- dimensions: ECOSEigen::ECOSEigen ---- *)
num_eq == Len(b)
num_sc == Len(soc_dims)
num_pc == num_ineq - SumSeq(soc_dims)
Rows == 1..num_ineq
LpRows == 1..num_pc
Cones == 1..num_sc

\* first row of second-order cone k, as the loops advance cone_start
cone_start(k) == num_pc + SumSeq(SubSeq(soc_dims, 1, k - 1)) + 1
TailRows(k) == (cone_start(k) + 1)..(cone_start(k) + soc_dims[k] - 1)
IsHead(i) == \E k \in Cones : i = cone_start(k)

\* norm of the tail of cone k of u (soc_dims[k] <= 2: one entry at most)
TailNorm(u, k) == IF TailRows(k) = {} THEN 0 ELSE MaxSet({Abs(u[i]) : i \in TailRows(k)})
\* u0^2 - ||u1||^2 > 0, decided without forming the squares
ResidualPositive(u, k) == Abs(u[cone_start(k)]) > TailNorm(u, k)

\* a vector of K = R^l x Q^.. given by its LP entries, cone heads and cone tails
Vec(p) == [i \in Rows |-> IF i \in LpRows THEN p.lp ELSE IF IsHead(i) THEN p.head ELSE p.tail]
Prof(a, h, t) == [lp |-> a, head |-> h, tail |-> t]

\* a * c for Unit-th quantities of either sign
MulS(a, c) == IF (a < 0) = (c < 0) THEN MulU(Abs(a), Abs(c)) ELSE -MulU(Abs(a), Abs(c))
RECURSIVE Dot(_, _, _)
Dot(u, v, i) ==
    IF i = 0 THEN 0
    ELSE LET d == Dot(u, v, i - 1)
             m == MulS(u[i], v[i])
         IN Clamp(d + m, -Sat, Sat)

(* ---- std::optional<double> ---- *)
nullopt == [has |-> FALSE, val |-> 0]
Some(v) == [has |-> TRUE, val |-> v]
\* operator<(const optional<double>&, const double&): an empty optional is
\* less than every value
OptLess(o, v) == IF o.has THEN o.val < v ELSE TRUE

VARIABLES
    pc,        \* position of the driver
    msg,       \* last status line printed
    info,      \* struct Information
    tau, kap,  \* homogeneous embedding
    s, z,      \* slacks and multipliers
    lambda,    \* the point (s, z) at which lambda = W z was last computed
    lp_cone,   \* the LP rows of (s, z) at which lp_cone.v, lp_cone.w were computed
    upd_ok,    \* value returned by the last updateScalings call
    isnan,     \* the iterate holds NaN
    cx, by, hz,\* c'x, b'y, h'z of computeResiduals
    done,      \* local of solve()
    reduced,   \* argument of the last checkExitConditions call
    ldlt,      \* the LDLT factorizer and what it was told about K
    args,      \* a member function entered on its own: its arguments
    out        \* what that function has computed so far

vars == <<pc, msg, info, tau, kap, s, z, lambda, lp_cone, upd_ok, isnan, cx, by, hz, done, reduced,
         ldlt, args, out>>

(* ---- ECOSEigen::bringToCone ---- *)
bringToCone(r) ==
    LET lp_res == {-r[i] : i \in {j \in LpRows : r[j] <= 0}}
        cres(k) == r[cone_start(k)] - TailNorm(r, k)
        soc_res == {-cres(k) : k \in {j \in Cones : cres(j) <= 0}}
        alpha == MaxSet({-gamma} \cup lp_res \cup soc_res) + Unit
    IN [i \in Rows |-> IF i \in LpRows \/ IsHead(i) THEN r[i] + alpha ELSE r[i]]

(* ---- ECOSEigen::updateScalings ---- *)
\* The second exit (c2byu02 - d <= 0) is not taken for a point with positive
\* residuals (there c^2/u0^2 - d > 0); rounding in the doubles is not modelled.
updateScalings(s_, z_) ==
    \A k \in Cones : ResidualPositive(s_, k) /\ ResidualPositive(z_, k)

LpPoint(s_, z_) == [s |-> [i \in LpRows |-> s_[i]], z |-> [i \in LpRows |-> z_[i]]]
\* lp_cone.v = s/z and lp_cone.w = sqrt(v) are finite and non-zero
LpScalable(lp) == \A i \in LpRows : (lp.s[i] > 0 /\ lp.z[i] > 0) \/ (lp.s[i] < 0 /\ lp.z[i] < 0)

(* ---- ECOSEigen::lineSearch ---- *)
\* 1/(-d/v): the step at which a component v moving along d reaches zero;
\* AlphaSat when the quotient d/v is not negative
StepTo(v, d) ==
    IF (v > 0 /\ d < 0) \/ (v < 0 /\ d > 0)
    THEN Min2(Abs(v) \div Abs(d), AlphaSat)
    ELSE AlphaSat

\* 1/max(rhonorm, 0) of cone k for the point u and the direction du: the
\* quotients of the two faces u0 -+ u1 of the cone
ConeStep(u, du, cs, dim) ==
    IF dim = 1 THEN StepTo(u[cs], du[cs])
    ELSE Min2(StepTo(u[cs] - u[cs + 1], du[cs] - du[cs + 1]),
              StepTo(u[cs] + u[cs + 1], du[cs] + du[cs + 1]))

\* lknorm2 > 0 for the rows cs .. cs+dim-1 of lambda
LambdaPositive(lam, cs, dim) ==
    /\ Abs(lam.s[cs]) > (IF dim = 1 THEN 0 ELSE Abs(lam.s[cs + 1]))
    /\ Abs(lam.z[cs]) > (IF dim = 1 THEN 0 ELSE Abs(lam.z[cs + 1]))

\* the loop over so_cones; `continue` leaves cone_start where it was
RECURSIVE SocLoop(_, _, _, _, _, _, _)
SocLoop(k, cs, alpha, lam, ds, dz, uninit) ==
    IF k > num_sc THEN alpha
    ELSE IF ~LambdaPositive(lam, cs, soc_dims[k])
         THEN SocLoop(k + 1, cs, alpha, lam, ds, dz, uninit)
         ELSE LET inv_conic_step == Min2(uninit,
                                         Min2(ConeStep(lam.z, dz, cs, soc_dims[k]),
                                              ConeStep(lam.s, ds, cs, soc_dims[k])))
              IN SocLoop(k + 1, cs + soc_dims[k], Min2(inv_conic_step, alpha), lam, ds, dz, uninit)

\* lam: the scaling point; ds, dz: unscaled directions; lp_stale: the LP
\* bound to use when lambda and lp_cone.w belong to different points;
\* uninit: 1/conic_step for the indeterminate value conic_step is read with
lineSearch(lam, lp, ds, dz, tau_, dtau, kap_, dkap, lp_stale, uninit) ==
    LET alpha0 == IF num_pc > 0
                  THEN IF lp = LpPoint(lam.s, lam.z)
                       THEN MinSet({AlphaSat} \cup {StepTo(lam.s[i], ds[i]) : i \in LpRows}
                                              \cup {StepTo(lam.z[i], dz[i]) : i \in LpRows})
                       ELSE lp_stale
                  ELSE AlphaSat
        minus_tau_by_dtau == StepTo(tau_, dtau)
        minus_kap_by_dkap == StepTo(kap_, dkap)
        alpha1 == IF minus_tau_by_dtau < alpha0 THEN minus_tau_by_dtau ELSE alpha0
        alpha2 == IF minus_kap_by_dkap < alpha1 THEN minus_kap_by_dkap ELSE alpha1
        alpha3 == SocLoop(1, num_pc + 1, alpha2, lam, ds, dz, uninit)
    IN Clamp(alpha3, stepmin, stepmax)

\* values read from the uninitialised conic_step, as 1/conic_step: AlphaSat
\* for a value that is not positive or NaN, 0 for a very large one
UninitSteps == {AlphaSat, 0}
\* LP bounds when lambda is stale
StaleSteps == {AlphaSat, 0}

(* ---- ECOSEigen::checkExitConditions ---- *)
Tol(reduced_accuracy) ==
    IF reduced_accuracy
    THEN [feastol |-> feastol_inacc, abstol |-> abstol_inacc, reltol |-> reltol_inacc]
    ELSE [feastol |-> feastol, abstol |-> abstol, reltol |-> reltol]

\* checkExitConditions with the dual-infeasibility test placed before the
\* optimality test
checkExitConditions_dual_first(reduced_accuracy, format_throws) ==
    LET t == Tol(reduced_accuracy)
    IN IF info.dinfres.has /\ info.dinfres.val < t.feastol /\ tau < kap
       THEN [ret |-> FALSE, pinf |-> FALSE, dinf |-> TRUE,
             msg |-> IF reduced_accuracy THEN "UNBOUNDED" ELSE "Close to UNBOUNDED",
             threw |-> "none"]
       ELSE IF /\ (-cx > 0 \/ -by - hz >= -t.abstol)
               /\ (info.pres < t.feastol /\ info.dres < t.feastol)
               /\ (info.gap < t.abstol \/ info.relgap < t.reltol)
       THEN [ret |-> TRUE, pinf |-> FALSE, dinf |-> FALSE,
             msg |-> IF reduced_accuracy THEN "Close to OPTIMAL" ELSE "OPTIMAL",
             threw |-> "none"]
       ELSE [ret |-> FALSE, pinf |-> info.pinf, dinf |-> info.dinf,
             msg |-> msg, threw |-> "none"]

\* the value returned, the flags and the status line left behind, and the
\* exception that leaves the function, if any.  The format string of the
\* primal-infeasible lines has the field {3.1e} (no colon): format_throws
\* says whether the formatting library rejects it when the line is printed.
checkExitConditions(reduced_accuracy, format_throws) ==
    LET t == Tol(reduced_accuracy)
        none == [ret |-> FALSE, pinf |-> info.pinf, dinf |-> info.dinf,
                 msg |-> msg, threw |-> "none"]
    IN IF /\ (-cx > 0 \/ -by - hz >= -t.abstol)
          /\ (info.pres < t.feastol /\ info.dres < t.feastol)
          /\ (info.gap < t.abstol \/ info.relgap < t.reltol)
       THEN [ret |-> TRUE, pinf |-> FALSE, dinf |-> FALSE,
             msg |-> IF reduced_accuracy THEN "Close to OPTIMAL" ELSE "OPTIMAL",
             threw |-> "none"]
       ELSE IF info.dinfres.has /\ info.dinfres.val < t.feastol /\ tau < kap
       THEN [ret |-> FALSE, pinf |-> FALSE, dinf |-> TRUE,
             msg |-> IF reduced_accuracy THEN "UNBOUNDED" ELSE "Close to UNBOUNDED",
             threw |-> "none"]
       ELSE IF \/ ((info.pinfres.has /\ OptLess(info.pinfres, t.feastol)) /\ tau < kap)
               \/ (tau < t.feastol /\ kap < t.feastol /\ OptLess(info.pinfres, t.feastol))
       THEN IF ~info.pinfres.has
            THEN [none EXCEPT !.threw = "bad_optional_access"]
            ELSE IF format_throws
            THEN [none EXCEPT !.threw = "format_error"]
            ELSE [ret |-> FALSE, pinf |-> TRUE, dinf |-> FALSE,
                  msg |-> IF reduced_accuracy THEN "PRIMAL INFEASIBLE"
                                               ELSE "Close to PRIMAL INFEASIBLE",
                  threw |-> "none"]
       ELSE none

(* ---- inputs of computeResiduals / updateStatistics ---- *)
\* <<c'x, b'y, h'z>>
CostVals == {<<-Unit, 0, Unit>>, <<-Unit, Unit, -Unit>>, <<-Unit, 0, -Unit>>, <<0, 0, 0>>,
             <<0, -Unit, Unit>>, <<Unit, 0, 0>>, <<Unit, 0, -Unit>>, <<Unit, Unit, Unit>>}
\* |max(nry, nrz) / tau| and |rx.norm() / max(resx0 + ny + nz, 1) / tau|
ResVals == {0, Unit}
\* hresx
InfVals == {feastol \div 2, Unit}
\* <<hresy, hresz>>
InfPairs == {<<0, feastol \div 2>>, <<Unit, 0>>}
\* max(nx, 1), max(ny + nz, 1), max(nx + ns, 1)
NormVals == 1..MaxNorm

(* ---- inputs of the KKT solves ---- *)
\* -dz1 and dz2 of the two initial solves
InitProfiles == {Prof(1, 1, 0), Prof(-(Unit \div 100), 0, Unit \div 100)}

ZeroDir == [dtau |-> 0, dkap |-> 0, ds |-> Prof(0, 0, 0), dz |-> Prof(0, 0, 0)]
ShrinkDir == [dtau |-> -1, dkap |-> 0, ds |-> Prof(-1, -1, 0), dz |-> Prof(-1, -1, 0)]
ScalarDir == [dtau |-> -BigDir, dkap |-> -BigDir, ds |-> Prof(0, 0, 0), dz |-> Prof(0, 0, 0)]
LpDir == [dtau |-> 0, dkap |-> 0, ds |-> Prof(0, 0, 0), dz |-> Prof(-BigDir, 0, 0)]
TailDir == [dtau |-> 0, dkap |-> 0, ds |-> Prof(0, 0, BigDir), dz |-> Prof(0, 0, 0)]
\* combined directions (dtau, dkap, ds = W * ds_by_W, dz2)
Directions == {ZeroDir, ShrinkDir, ScalarDir, LpDir, TailDir}

Point(s_, z_) == [s |-> s_, z |-> z_]
ZeroVec == Vec(Prof(0, 0, 0))

(* ---- state after construction ---- *)
\* Eigen::SimplicialLDLT after its constructor: no pattern analysed, nothing
\* factorized.  The fields count the calls; current says that the last
\* factorize succeeded and K was not written since; misuse says that a call
\* came out of order.
LdltInit == [analyzePattern |-> 0, factorize |-> 0, solve |-> 0, current |-> FALSE,
             misuse |-> FALSE]
\* K.coeffRef(..) = ..: the factorization no longer belongs to K's values
K_written(l) == [l EXCEPT !.current = FALSE]
\* ldlt.analyzePattern(K)
analyzePattern(l) == [l EXCEPT !.analyzePattern = @ + 1, !.misuse = @ \/ l.factorize > 0]
\* ldlt.factorize(K); ldlt.info() == Eigen::Success
factorize(l, success) ==
    [l EXCEPT !.factorize = @ + 1, !.current = success, !.misuse = @ \/ l.analyzePattern = 0]
\* solveKKT: ldlt.solve(rhs), and ldlt.solve(e) for each refinement; the
\* factorizer is not touched between them.  Counted once per solveKKT call.
ldlt_solve(l) == [l EXCEPT !.solve = @ + 1, !.misuse = @ \/ ~l.current]
\* initKKT(); ldlt.analyzePattern(K); ldlt.factorize(K);
solve_factorize(l, success) == factorize(analyzePattern(K_written(l)), success)
\* updateKKT with the factorization taken before K is rewritten
updateKKT_factorize_first(l, success) == K_written(factorize(l, success))
\* updateKKT: the V-block of K is rewritten, then ldlt.factorize(K)
updateKKT_ldlt(l, success) == factorize(K_written(l), success)
\* no member function entered on its own
NoCall == [fn |-> "none"]

\* info.iter_max is never assigned: solve() reads an indeterminate value
InfoInit(im) ==
    [pres |-> 0, dres |-> 0, pinf |-> FALSE, dinf |-> FALSE,
     pinfres |-> nullopt, dinfres |-> nullopt, gap |-> 0, relgap |-> 0,
     step |-> 0, iter |-> 0, iter_max |-> im]

InitWith(IterMaxVals) ==
    /\ pc = "start"
    /\ msg = ""
    /\ info \in {InfoInit(im) : im \in IterMaxVals}
    /\ tau = 0 /\ kap = 0
    /\ s = ZeroVec /\ z = ZeroVec
    /\ lambda = Point(ZeroVec, ZeroVec)
    /\ lp_cone = LpPoint(ZeroVec, ZeroVec)
    /\ upd_ok = TRUE
    /\ isnan = FALSE
    /\ cx = 0 /\ by = 0 /\ hz = 0
    /\ done = FALSE
    /\ reduced = FALSE
    /\ ldlt = LdltInit
    /\ args = NoCall
    /\ out = NoCall

Init == InitWith(0..MaxIterMax)

(* ---- ECOSEigen::solve, up to the loop ---- *)
\* R: the values -dz1 and dz2 of the two initial solves
SolveInit(R) ==
    /\ pc = "start"
    /\ \E factorized \in BOOLEAN, r1 \in R, r2 \in R :
         IF ~factorized
         THEN /\ msg' = "Failed to factorize matrix!"
              /\ ldlt' = solve_factorize(ldlt, FALSE)
              /\ pc' = "exited"
              /\ UNCHANGED <<info, tau, kap, s, z, done>>
         ELSE /\ s' = bringToCone(Vec(r1))
              /\ z' = bringToCone(Vec(r2))
              /\ kap' = Unit
              /\ tau' = Unit
              /\ info' = [info EXCEPT !.step = 0, !.pinf = FALSE, !.dinf = FALSE,
                                      !.iter = 0]
              /\ done' = FALSE
              /\ ldlt' = ldlt_solve(ldlt_solve(solve_factorize(ldlt, TRUE)))
              /\ pc' = "loop"
              /\ UNCHANGED msg
    /\ UNCHANGED <<lambda, lp_cone, upd_ok, isnan, cx, by, hz, reduced>>
    /\ UNCHANGED <<args, out>>

\* for (...; info.iter < info.iter_max; ...)
LoopTest ==
    /\ pc = "loop"
    /\ pc' = IF info.iter < info.iter_max THEN "stats" ELSE "backscale"
    /\ UNCHANGED <<msg, info, tau, kap, s, z, lambda, lp_cone, upd_ok, isnan, cx, by, hz, done, reduced>>
    /\ UNCHANGED <<ldlt, args, out>>

(* ---- ECOSEigen::computeResiduals and ECOSEigen::updateStatistics ---- *)
\* info.mu, info.kapovert, info.pcost and info.dcost are printed and feed the
\* right-hand sides only; of pcost and dcost the model keeps the signs.  The
\* norms of the residuals are inputs, so pres and dres are drawn as the
\* magnitude of the quotient by tau and take the sign of tau (a quotient by
\* tau = 0 is +inf or NaN: below no tolerance).
Statistics ==
    /\ pc = "stats"
    /\ \E cost \in CostVals, pres \in ResVals, dres \in ResVals,
          hresx \in InfVals, hresyz \in InfPairs,
          nyz \in NormVals, nx \in NormVals, nxs \in NormVals :
         LET cx1 == cost[1]
             by1 == IF num_eq > 0 THEN cost[2] ELSE 0
             hz1 == cost[3]
             hresy == IF num_eq > 0 THEN hresyz[1] ELSE 0
             hresz == hresyz[2]
             gap == Dot(s, z, num_ineq)
             pcost_neg == IF tau >= 0 THEN cx1 < 0 ELSE cx1 > 0
             dcost_pos == IF tau >= 0 THEN hz1 + by1 < 0 ELSE hz1 + by1 > 0
             gap_tau == MulS(gap, Abs(tau))
             OverTau(q) == IF tau > 0 THEN q ELSE IF tau < 0 THEN -q ELSE Sat
             relgap == IF pcost_neg THEN gap_tau \div (Abs(cx1) \div Unit)
                       ELSE gap_tau \div (Abs(hz1 + by1) \div Unit)
         IN /\ nx <= nxs
            /\ cx' = cx1 /\ by' = by1 /\ hz' = hz1
            /\ IF isnan \/ ~(pcost_neg \/ dcost_pos)
               THEN /\ msg' = "relgap is NaN"
                    /\ pc' = "exited"
                    /\ info' = [info EXCEPT !.gap = gap]
               ELSE /\ info' = [info EXCEPT
                           !.gap = gap,
                           !.relgap = relgap,
                           !.pres = OverTau(pres),
                           !.dres = OverTau(dres),
                           !.pinfres = IF hz1 + by1 < -reltol * nyz
                                       THEN Some(hresx \div nyz) ELSE @,
                           !.dinfres = IF cx1 < -reltol * nx
                                       THEN Some(Max2(hresy \div nx, hresz \div nxs)) ELSE @]
                    /\ pc' = "check"
                    /\ UNCHANGED msg
    /\ UNCHANGED <<tau, kap, s, z, lambda, lp_cone, upd_ok, isnan, done, reduced>>
    /\ UNCHANGED <<ldlt, args, out>>

(* ---- done = checkExitConditions(reduced_accuracy); if (done) break; ---- *)
\* an exception leaves solve(), which has no handler
Check(reduced_accuracy) ==
    /\ pc = "check"
    /\ \E format_throws \in BOOLEAN :
         LET r == checkExitConditions(reduced_accuracy, format_throws)
         IN /\ reduced' = reduced_accuracy
            /\ IF r.threw # "none"
               THEN /\ pc' = "threw"
                    /\ msg' = r.threw
                    /\ UNCHANGED <<info, done>>
               ELSE /\ info' = [info EXCEPT !.pinf = r.pinf, !.dinf = r.dinf]
                    /\ msg' = r.msg
                    /\ done' = r.ret
                    /\ pc' = IF r.ret THEN "backscale" ELSE "scalings"
    /\ UNCHANGED <<tau, kap, s, z, lambda, lp_cone, upd_ok, isnan, cx, by, hz>>
    /\ UNCHANGED <<ldlt, args, out>>

\* the call of the driver: checkExitConditions(false)
CheckExit == Check(FALSE)

(* ---- updateScalings(s, z, lambda); the value returned is dropped ---- *)
UpdateScalings ==
    /\ pc = "scalings"
    /\ upd_ok' = updateScalings(s, z)
    /\ lp_cone' = LpPoint(s, z)
    /\ lambda' = IF updateScalings(s, z) THEN Point(s, z) ELSE lambda
    /\ pc' = "kkt"
    /\ UNCHANGED <<msg, info, tau, kap, s, z, isnan, cx, by, hz, done, reduced>>
    /\ UNCHANGED <<ldlt, args, out>>

(* ---- ECOSEigen::updateKKT ---- *)
UpdateKKT ==
    /\ pc = "kkt"
    /\ \E factorized \in BOOLEAN :
         /\ ldlt' = updateKKT_ldlt(ldlt, factorized)
         /\ IF factorized
            THEN pc' = "step" /\ UNCHANGED msg
            ELSE pc' = "exited" /\ msg' = "Failed to factorize matrix!"
    /\ UNCHANGED <<info, tau, kap, s, z, lambda, lp_cone, upd_ok, isnan, cx, by, hz, done, reduced>>
    /\ UNCHANGED <<args, out>>

\* v + st * d stays in the range the model follows
InRange(v, d, st) ==
    IF d = 0 THEN TRUE
    ELSE IF st > (2 * MaxVal) \div Abs(d) THEN FALSE
    ELSE IF d > 0 THEN st * d <= MaxVal - v ELSE st * (-d) <= MaxVal + v
Move(v, d, st) == v + st * d

(* ---- the rest of the loop body: the search direction, the line search on
        it, the update of the iterate, and info.iter++ ---- *)
\* The direction (dtau, dkap, ds = W * ds_by_W, dz2) is what the KKT solves
\* and the scalar formulas built on them deliver: an input drawn from D.
\* The affine predictor (info.step_aff, info.sigma) acts on the iterate only
\* through the right-hand side of the combined solve and is not formed.
Step(D) ==
    /\ pc = "step"
    /\ \E dir \in D, stale \in StaleSteps, uninit \in UninitSteps :
         IF ~LpScalable(lp_cone)
         THEN \* lp_cone.w is NaN, zero or infinite: so are the directions
              /\ isnan' = TRUE
              /\ info' = [info EXCEPT !.iter = @ + 1]
              /\ UNCHANGED <<tau, kap, s, z>>
         ELSE LET ds == Vec(dir.ds)
                  dz == Vec(dir.dz)
                  step == MulU(gamma, lineSearch(lambda, lp_cone, ds, dz, tau, dir.dtau,
                                                 kap, dir.dkap, stale, uninit))
              IN /\ InRange(tau, dir.dtau, step) /\ InRange(kap, dir.dkap, step)
                 /\ \A i \in Rows : InRange(s[i], ds[i], step) /\ InRange(z[i], dz[i], step)
                 /\ z' = [i \in Rows |-> Move(z[i], dz[i], step)]
                 /\ s' = [i \in Rows |-> Move(s[i], ds[i], step)]
                 /\ kap' = Move(kap, dir.dkap, step)
                 /\ tau' = Move(tau, dir.dtau, step)
                 /\ info' = [info EXCEPT !.step = step, !.iter = @ + 1]
                 /\ UNCHANGED isnan
    /\ ldlt' = ldlt_solve(ldlt_solve(ldlt_solve(ldlt)))
    /\ pc' = "loop"
    /\ UNCHANGED <<msg, lambda, lp_cone, upd_ok, cx, by, hz, done, reduced>>
    /\ UNCHANGED <<args, out>>

(* ---- ECOSEigen::backscale, and the return of solve() ---- *)
\* The division of x, y, z, s by tau and by the equilibration vectors is
\* not formed: s and z stay the iterate that was handed over.
Backscale ==
    /\ pc = "backscale"
    /\ pc' = "returned"
    /\ UNCHANGED <<msg, info, tau, kap, s, z, lambda, lp_cone, upd_ok, isnan, cx, by, hz, done, reduced>>
    /\ UNCHANGED <<ldlt, args, out>>

Next ==
    \/ SolveInit(InitProfiles)
    \/ LoopTest
    \/ Statistics
    \/ CheckExit
    \/ UpdateScalings
    \/ UpdateKKT
    \/ Step(Directions)
    \/ Backscale

Spec == Init /\ [][Next]_vars

(* ---- the driver with more iterations than settings.maxit ---- *)
\* info.iter_max holds an indeterminate value above maxit; the initial
\* solves return one value, the later ones the zero direction
InitIter == InitWith({maxit + 1})

NextIter ==
    \/ SolveInit({Prof(1, 1, 0)})
    \/ LoopTest
    \/ Statistics
    \/ CheckExit
    \/ UpdateScalings
    \/ UpdateKKT
    \/ Step({ZeroDir})
    \/ Backscale

SpecIter == InitIter /\ [][NextIter]_vars

(* ---- checkExitConditions on its own ---- *)
ExitRes == {0, feastol_inacc \div 2, Unit}
ExitGap == {abstol \div 2, abstol_inacc \div 2, Unit}
ExitRelgap == {reltol \div 2, Unit}
ExitInfres == {nullopt, Some(feastol \div 2), Some(feastol_inacc \div 2), Some(Unit)}
ExitTauKap == {<<feastol \div 2, feastol \div 2>>, <<feastol \div 2, Unit>>,
               <<Unit, feastol \div 2>>, <<Unit, Unit>>}
ExitFlags == {<<FALSE, FALSE>>, <<TRUE, FALSE>>, <<FALSE, TRUE>>}

InitExit ==
    /\ pc = "check"
    /\ msg = ""
    /\ \E cost \in CostVals, tk \in ExitTauKap :
         /\ cx = cost[1] /\ by = cost[2] /\ hz = cost[3]
         /\ tau = tk[1] /\ kap = tk[2]
    /\ info \in {[InfoInit(MaxIterMax) EXCEPT !.pres = pr, !.dres = dr, !.gap = g, !.relgap = rg,
                                               !.pinfres = pi, !.dinfres = di,
                                               !.pinf = fl[1], !.dinf = fl[2]] :
                   pr \in ExitRes, dr \in ExitRes, g \in ExitGap, rg \in ExitRelgap,
                   pi \in ExitInfres, di \in ExitInfres, fl \in ExitFlags}
    /\ s = bringToCone(ZeroVec) /\ z = bringToCone(ZeroVec)
    /\ lambda = Point(ZeroVec, ZeroVec)
    /\ lp_cone = LpPoint(ZeroVec, ZeroVec)
    /\ upd_ok = TRUE
    /\ isnan = FALSE
    /\ done = FALSE
    /\ reduced = FALSE
    /\ ldlt = LdltInit
    /\ args = NoCall
    /\ out = NoCall

ExitTest == \E reduced_accuracy \in BOOLEAN : Check(reduced_accuracy)

NextExit == ExitTest

SpecExit == InitExit /\ [][NextExit]_vars

\* solve() followed through its calls of the factorizer: every starting
\* point, every outcome of the two factorize calls, the search directions
\* that leave the iterate where it is
InitFactorizer == InitWith(0..MaxIterMax)

NextFactorizer ==
    \/ SolveInit(InitProfiles)
    \/ LoopTest
    \/ Statistics
    \/ CheckExit
    \/ UpdateScalings
    \/ UpdateKKT
    \/ Step({ZeroDir})
    \/ Backscale

SpecFactorizer == InitFactorizer /\ [][NextFactorizer]_vars

(***************************************************************************)
(* Member functions entered on their own                                   *)
(***************************************************************************)
\* the members of the driver while one function is looked at
driver_vars == <<msg, info, tau, kap, s, z, lambda, lp_cone, upd_ok, isnan, cx, by, hz, done,
                 reduced, ldlt>>
DriverAtRest ==
    /\ msg = ""
    /\ info = InfoInit(0)
    /\ tau = 0 /\ kap = 0
    /\ s = ZeroVec /\ z = ZeroVec
    /\ lambda = Point(ZeroVec, ZeroVec)
    /\ lp_cone = LpPoint(ZeroVec, ZeroVec)
    /\ upd_ok = TRUE
    /\ isnan = FALSE
    /\ cx = 0 /\ by = 0 /\ hz = 0
    /\ done = FALSE
    /\ reduced = FALSE
    /\ ldlt = LdltInit

(* ---- lineSearch on its own ---- *)
\* scaling points: s and z as bringToCone leaves them
ConePoints == {bringToCone(Vec(r)) : r \in InitProfiles}
LsScalars == {Unit \div 2, Unit}

InitLineSearch ==
    /\ pc = "call"
    /\ DriverAtRest
    /\ args \in {[fn |-> "lineSearch", lambda |-> Point(sv, zv), dir |-> d,
                  tau |-> t, kap |-> k] :
                   sv \in ConePoints, zv \in ConePoints, d \in Directions,
                   t \in LsScalars, k \in LsScalars}
    /\ out = NoCall

\* lp_cone.w belongs to the point lambda was computed at
LineSearchCall ==
    /\ pc = "call"
    /\ args.fn = "lineSearch" /\ "dir" \in DOMAIN args
    /\ \E uninit \in UninitSteps :
         out' = [fn |-> "lineSearch",
                 alpha |-> lineSearch(args.lambda, LpPoint(args.lambda.s, args.lambda.z),
                                      Vec(args.dir.ds), Vec(args.dir.dz),
                                      args.tau, args.dir.dtau, args.kap, args.dir.dkap,
                                      AlphaSat, uninit)]
    /\ pc' = "ret"
    /\ UNCHANGED <<driver_vars, args>>

NextLineSearch == LineSearchCall

SpecLineSearch == InitLineSearch /\ [][NextLineSearch]_vars

(* ---- ECOSEigen::ECOSEigen on its own ---- *)
\* size_t and Eigen::Index are 64 bits wide; the integers of the checker are
\* 32 bits wide, so the model wraps at 2^30.  The dimensions it draws are far
\* below either width.
SizeT == 2^30
\* conversion of an int or an Index to size_t
ToSize(i) == i % SizeT
\* conversion of a size_t to Eigen::Index, the argument type of resize()
ToIndex(u) == IF u >= SizeT \div 2 THEN u - SizeT ELSE u

\* The members the constructor leaves behind and whether it comes to its end.
\* The only checks are assert() and the eigen_assert(size >= 0) of resize():
\* NDEBUG says that the build compiled them out.
ECOSEigen(G_rows, G_cols, A_rows, A_cols, soc, NDEBUG) ==
    LET asserted == (A_cols > 0 /\ G_cols > 0) => A_cols = G_cols
        l == ToSize(G_rows - SumSeq(soc))
        dim == [i \in 1..Len(soc) |-> ToSize(soc[i])]
        resized == {l} \cup {dim[i] : i \in 1..Len(soc)}
                       \cup {ToSize(dim[i] - 1) : i \in 1..Len(soc)}
    IN [fn |-> "ECOSEigen",
        constructed |-> NDEBUG \/ (asserted /\ \A u \in resized : ToIndex(u) >= 0),
        num_var |-> Max2(A_cols, G_cols),
        num_eq |-> A_rows,
        num_ineq |-> G_rows,
        num_pc |-> l,
        num_sc |-> Len(soc),
        dim |-> dim]

\* soc_dims as callers may hand it over: valid, too large, with a zero or a
\* negative entry
CtorSocDims == {<< >>, <<1>>, <<2>>, <<3>>, <<2, 2>>, <<0>>, <<-1>>, <<-1, 2>>}
CtorRows == 0..3
CtorCols == 0..2

InitConstruct ==
    /\ pc = "call"
    /\ DriverAtRest
    /\ args \in {[fn |-> "ECOSEigen", G_rows |-> gr, G_cols |-> gc, A_rows |-> ar,
                  A_cols |-> ac, soc_dims |-> q] :
                   gr \in CtorRows, gc \in CtorCols \ {0}, ar \in 0..1, ac \in CtorCols,
                   q \in CtorSocDims}
    /\ out = NoCall

Construct ==
    /\ pc = "call"
    /\ args.fn = "ECOSEigen"
    /\ \E NDEBUG \in BOOLEAN :
         out' = ECOSEigen(args.G_rows, args.G_cols, args.A_rows, args.A_cols,
                          args.soc_dims, NDEBUG)
    /\ pc' = "ret"
    /\ UNCHANGED <<driver_vars, args>>

NextConstruct == Construct

SpecConstruct == InitConstruct /\ [][NextConstruct]_vars

(* ---- the uses of A: computeResiduals, updateStatistics, solveKKT ---- *)
\* What computeResiduals does with A, and hresy and by, for p equality
\* constraints; ry_norm is (A * x).norm(), b_y is b.dot(y)
computeResiduals(p, ry_norm, b_y) ==
    [fn |-> "computeResiduals",
     touched |-> {"A.transpose()"} \cup (IF p > 0 THEN {"At * y", "A * x"} ELSE {}),
     hresy |-> IF p > 0 THEN ry_norm ELSE 0,
     by |-> IF p > 0 THEN b_y ELSE 0,
     pres |-> 0]

\* info.pres * tau of updateStatistics; nry_ and nrz are the scaled norms of
\* ry and rz
updateStatistics(p, nry_, nrz) ==
    LET nry == IF p > 0 THEN nry_ ELSE 0
    IN [fn |-> "updateStatistics", touched |-> {}, hresy |-> 0, by |-> 0,
        pres |-> Max2(nry, nrz)]

\* the error terms of one refinement pass of solveKKT: the uses of A and the
\* maximum error nerr
solveKKT_errors(p, nex, ney, nez) ==
    [fn |-> "solveKKT",
     touched |-> {"A.transpose()"} \cup (IF p > 0 THEN {"At * dy", "A * dx"} ELSE {}),
     hresy |-> 0, by |-> 0, pres |-> 0,
     nerr |-> IF p > 0 THEN Max2(Max2(nex, nez), ney) ELSE Max2(nex, nez)]

\* numbers of equality constraints
EqCounts == 0..1
\* error norms of a KKT solution: none, below and above the threshold
ErrVals == {0, 5, Unit}

InitUsesOfA ==
    /\ pc = "call"
    /\ DriverAtRest
    /\ args \in {[fn |-> "computeResiduals", num_eq |-> p, u |-> n, v |-> c, w |-> 0] :
                   p \in EqCounts, n \in ResVals, c \in {-Unit, 0, Unit}}
          \cup {[fn |-> "updateStatistics", num_eq |-> p, u |-> n, v |-> c, w |-> 0] :
                   p \in EqCounts, n \in ResVals, c \in ResVals}
          \cup {[fn |-> "solveKKT", num_eq |-> p, u |-> ex, v |-> ey, w |-> ez] :
                   p \in EqCounts, ex \in ErrVals, ey \in ErrVals, ez \in ErrVals}
    /\ out = NoCall

ComputeResidualsCall ==
    /\ pc = "call"
    /\ args.fn = "computeResiduals"
    /\ out' = computeResiduals(args.num_eq, args.u, args.v)
    /\ pc' = "ret"
    /\ UNCHANGED <<driver_vars, args>>

UpdateStatisticsCall ==
    /\ pc = "call"
    /\ args.fn = "updateStatistics"
    /\ out' = updateStatistics(args.num_eq, args.u, args.v)
    /\ pc' = "ret"
    /\ UNCHANGED <<driver_vars, args>>

SolveKKTErrors ==
    /\ pc = "call"
    /\ args.fn = "solveKKT"
    /\ out' = solveKKT_errors(args.num_eq, args.u, args.v, args.w)
    /\ pc' = "ret"
    /\ UNCHANGED <<driver_vars, args>>

NextUsesOfA ==
    \/ ComputeResidualsCall
    \/ UpdateStatisticsCall
    \/ SolveKKTErrors

SpecUsesOfA == InitUsesOfA /\ [][NextUsesOfA]_vars

(* ---- ECOSEigen::setEquilibration on its own ---- *)
\* The magnitude of a matrix entry or of a scale factor is a power of two,
\* 2^(e/8), held as the integer e, so that the square root is e/2 and a
\* quotient a difference; ZeroMag is the magnitude of 0.  The exponents of
\* the matrices drawn are multiples of 8: three passes halve them exactly.
ZeroMag == -100000
\* fabs(v) < 1e-6, on the exponents: 8 * log2(1e-6) = -159.45
FloorExp == -160
equil_iters == 3
\* columns of A and G
num_var == 2
Cols == 1..num_var
EqRows == 1..num_eq

DivMag(a, c) == IF a = ZeroMag THEN ZeroMag ELSE a - c
\* a + c of two magnitudes: exact when one of them is 0 or both are equal,
\* else held at the larger one
AddMag(a, c) ==
    IF a = ZeroMag THEN c
    ELSE IF c = ZeroMag THEN a
    ELSE IF a = c THEN a + 8 ELSE Max2(a, c)
\* G_tmp.segment(ind, sc.dim).sum()
RECURSIVE SumMag(_, _, _)
SumMag(v, from, to) ==
    IF from > to THEN ZeroMag ELSE AddMag(v[from], SumMag(v, from + 1, to))

\* the factor of a row or column without the floor at 1
EquilFactor_no_floor(v) == v \div 2
\* fabs(v) < 1e-6 ? 1. : sqrt(v)
EquilFactor(v) == IF v < FloorExp THEN 0 ELSE v \div 2

\* first row of the cone that row i of G belongs to (i itself in the LP block)
BlockStart(i) ==
    IF i \in LpRows THEN i
    ELSE cone_start(CHOOSE k \in Cones : cone_start(k) <= i /\ i < cone_start(k) + soc_dims[k])
BlockEnd(i) ==
    IF i \in LpRows THEN i
    ELSE LET k == CHOOSE j \in Cones : cone_start(j) <= i /\ i < cone_start(j) + soc_dims[j]
         IN cone_start(k) + soc_dims[k] - 1

\* one pass of the loop of setEquilibration
equilibratePass(e) ==
    LET x_max == [j \in Cols |-> MaxSet({e.A[i][j] : i \in EqRows} \cup {e.G[i][j] : i \in Rows}
                                        \cup {ZeroMag})]
        A_max == [i \in EqRows |-> MaxSet({e.A[i][j] : j \in Cols})]
        G_max == [i \in Rows |-> MaxSet({e.G[i][j] : j \in Cols})]
        G_col == [i \in Rows |-> SumMag(G_max, BlockStart(i), BlockEnd(i))]
        x_tmp == [j \in Cols |-> EquilFactor(x_max[j])]
        A_tmp == [i \in EqRows |-> EquilFactor(A_max[i])]
        G_tmp == [i \in Rows |-> EquilFactor(G_col[i])]
    IN [e EXCEPT !.iter = @ + 1,
                 !.A = [i \in EqRows |-> [j \in Cols |-> DivMag(DivMag(e.A[i][j], A_tmp[i]), x_tmp[j])]],
                 !.G = [i \in Rows |-> [j \in Cols |-> DivMag(DivMag(e.G[i][j], G_tmp[i]), x_tmp[j])]],
                 !.x_equil = [j \in Cols |-> @[j] + x_tmp[j]],
                 !.A_equil = [i \in EqRows |-> @[i] + A_tmp[i]],
                 !.G_equil = [i \in Rows |-> @[i] + G_tmp[i]]]

\* rows of a matrix: all zero, one entry 1, entries 4 and 1, one entry 2^-24
EquilRowVals == {<<ZeroMag, ZeroMag>>, <<0, ZeroMag>>, <<16, 0>>, <<-192, ZeroMag>>}
\* the rows of G: at most one row of the cone is not zero
IsZeroRow(r) == \A j \in Cols : r[j] = ZeroMag
EquilG ==
    {g \in [Rows -> EquilRowVals] :
        \A k \in Cones : Cardinality({i \in {cone_start(k)} \cup TailRows(k) : ~IsZeroRow(g[i])}) <= 1}

InitEquil ==
    /\ pc = "call"
    /\ DriverAtRest
    /\ args \in {[fn |-> "setEquilibration", A |-> [i \in EqRows |-> a], G |-> g,
                    b |-> [i \in EqRows |-> 0], h |-> [i \in Rows |-> 0]] :
                   a \in EquilRowVals, g \in EquilG}
    /\ out = NoCall

\* x_equil.setOnes(); A_equil.setOnes(); G_equil.setOnes();
EquilEnter ==
    /\ pc = "call"
    /\ args.fn = "setEquilibration"
    /\ out' = [fn |-> "setEquilibration", iter |-> 0, A |-> args.A, G |-> args.G,
               x_equil |-> [j \in Cols |-> 0], A_equil |-> [i \in EqRows |-> 0],
               G_equil |-> [i \in Rows |-> 0], b |-> args.b, h |-> args.h]
    /\ pc' = "equil"
    /\ UNCHANGED <<driver_vars, args>>

EquilPass ==
    /\ pc = "equil"
    /\ out.iter < equil_iters
    /\ out' = equilibratePass(out)
    /\ UNCHANGED <<pc, driver_vars, args>>

\* b = b.cwiseQuotient(A_equil); h = h.cwiseQuotient(G_equil);
EquilScaleRhs ==
    /\ pc = "equil"
    /\ out.iter >= equil_iters
    /\ out' = [out EXCEPT !.b = [i \in EqRows |-> DivMag(@[i], out.A_equil[i])],
                          !.h = [i \in Rows |-> DivMag(@[i], out.G_equil[i])]]
    /\ pc' = "ret"
    /\ UNCHANGED <<driver_vars, args>>

NextEquil ==
    \/ EquilEnter
    \/ EquilPass
    \/ EquilScaleRhs

SpecEquil == InitEquil /\ [][NextEquil]_vars

(* ---- bringToCone on its own ---- *)
\* r: inside the cone, on its boundary and outside
BtcEntries == {-(Unit \div 100), 0, 1, Unit \div 2, Unit}
BtcTails == {-(Unit \div 100), 0, Unit \div 100}

InitBringToCone ==
    /\ pc = "call"
    /\ DriverAtRest
    /\ args \in {[fn |-> "bringToCone", r |-> Vec(Prof(a, h, tl))] :
                   a \in BtcEntries, h \in BtcEntries \ {1}, tl \in BtcTails}
    /\ out = NoCall

BringToConeCall ==
    /\ pc = "call"
    /\ args.fn = "bringToCone"
    /\ out' = [fn |-> "bringToCone", s |-> bringToCone(args.r)]
    /\ pc' = "ret"
    /\ UNCHANGED <<driver_vars, args>>

NextBringToCone == BringToConeCall

SpecBringToCone == InitBringToCone /\ [][NextBringToCone]_vars

(* ---- ECOSEigen::conicDivision on its own ---- *)
\* u.segment(from, ..).dot(w.segment(from, ..)) over the rows from .. to
RECURSIVE DotRange(_, _, _, _)
DotRange(u, w, from, to) ==
    IF from > to THEN 0 ELSE u[from] * w[from] + DotRange(u, w, from + 1, to)

\* rho = u0 * u0 - u.segment(cone_start + 1, sc.dim - 1).squaredNorm()
Rho(u, cs, dim) == u[cs] * u[cs] - DotRange(u, u, cs + 1, cs + dim - 1)

\* v = u \ w.  The function is void: it reports nothing.  Every entry of v is
\* written as a quotient, held as numerator and denominator (zeta / u0 and
\* w / u0 brought to the denominator u0 * rho); a denominator 0 stands for
\* the inf or NaN the division yields.
conicDivision(u, w) ==
    LET block(i) == CHOOSE k \in Cones : cone_start(k) <= i /\ i < cone_start(k) + soc_dims[k]
        quot(i) ==
            IF i \in LpRows THEN [num |-> w[i], den |-> u[i]]
            ELSE LET cs == cone_start(block(i))
                     dim == soc_dims[block(i)]
                     u0 == u[cs]
                     w0 == w[cs]
                     rho == Rho(u, cs, dim)
                     zeta == DotRange(u, w, cs + 1, cs + dim - 1)
                 IN IF i = cs
                    THEN [num |-> u0 * w0 - zeta, den |-> rho]
                    ELSE [num |-> (zeta - w0 * u0) * u[i] + w[i] * rho, den |-> u0 * rho]
    IN [fn |-> "conicDivision", reported |-> FALSE, v |-> [i \in Rows |-> quot(i)]]

\* entries of u (lambda in RHS_combined) and of w
DivU == {-1, 0, 1, 2}
DivW == {0, 1}

InitDivision ==
    /\ pc = "call"
    /\ DriverAtRest
    /\ args \in {[fn |-> "conicDivision", u |-> Vec(Prof(ul, uh, ut)), w |-> Vec(Prof(1, wh, wt))] :
                   ul \in {1, 2}, uh \in DivU, ut \in DivU, wh \in DivW, wt \in DivW}
    /\ out = NoCall

\* conicDivision(lambda, ds1, dsaff_by_W) as RHS_combined calls it
ConicDivisionCall ==
    /\ pc = "call"
    /\ args.fn = "conicDivision"
    /\ out' = conicDivision(args.u, args.w)
    /\ pc' = "ret"
    /\ UNCHANGED <<driver_vars, args>>

NextDivision == ConicDivisionCall

SpecDivision == InitDivision /\ [][NextDivision]_vars

\* ---- the KKT matrix: setupKKT, initKKT, updateKKT ----
\* A sparse matrix is the set of its stored coordinates <<row, col>>, counted
\* from 0.  A triplet is <<row, col, block>>; K maps each stored coordinate to
\* the set of blocks that contributed to it (setFromTriplets adds up
\* triplets that share a coordinate).

\* the stored coordinates in the order of the column-major walk
RECURSIVE InOrder(_)
InOrder(M) ==
    IF M = {} THEN << >>
    ELSE LET c == CHOOSE c \in M : \A d \in M : c[2] < d[2] \/ (c[2] = d[2] /\ c[1] <= d[1])
         IN <<c>> \o InOrder(M \ {c})

\* M.transpose()
Transpose(M) == {<<c[2], c[1]>> : c \in M}

\* M.middleCols(start, cnt); leftCols(cnt) is middleCols(0, cnt)
middleCols(M, start, cnt) ==
    {<<c[1], c[2] - start>> : c \in {d \in M : d[2] >= start /\ d[2] < start + cnt}}

\* emplace_back(it.row(), col_K + it.col(), it.value()) over a whole matrix
Emplace(M, col_K, block) ==
    LET w == InOrder(M) IN [i \in 1..Len(w) |-> <<w[i][1], col_K + w[i][2], block>>]

\* the constructor's dimensions for matrices G (G_rows x num_var) and
\* A (num_eq x A_cols)
Layout(n, A_rows, A_cols, l, soc, A_, G_) ==
    [num_var |-> IF A_cols > n THEN A_cols ELSE n,
     num_eq |-> A_rows,
     num_ineq |-> l + SumSeq(soc),
     num_pc |-> (l + SumSeq(soc)) - SumSeq(soc),
     num_sc |-> Len(soc),
     dim_K |-> (IF A_cols > n THEN A_cols ELSE n) + A_rows + (l + SumSeq(soc)) + 2 * Len(soc),
     so_cones |-> soc,
     A_cols |-> A_cols,
     A |-> A_, G |-> G_]

\* K_nonzeros as setupKKT reserves it
RECURSIVE SocNonzeros(_)
SocNonzeros(soc) == IF soc = << >> THEN 0 ELSE (3 * Head(soc) + 1) + SocNonzeros(Tail(soc))

K_nonzeros(P) ==
    Cardinality(Transpose(P.A)) + Cardinality(Transpose(P.G))
    + P.num_var + P.num_eq + P.num_pc + SocNonzeros(P.so_cones)

\* I (1,1) and I (2,2): static regularization
RegTriplets(P) ==
    [k \in 1..P.num_var |-> <<k - 1, k - 1, "deltastat">>]
    \o [k \in 1..P.num_eq |-> <<P.num_var + k - 1, P.num_var + k - 1, "-deltastat">>]

\* A' (1,2) with the columns left where the transpose has them
AtTriplets_no_offset(P) == Emplace(Transpose(P.A), 0, "At")

\* A' (1,2)
AtTriplets(P) == Emplace(Transpose(P.A), P.A_cols, "At")

\* G' (1,3), SOC blocks
RECURSIVE GtSocTriplets(_, _, _, _)
GtSocTriplets(Gt, soc, col_K, col_Gt) ==
    IF soc = << >> THEN << >>
    ELSE Emplace(middleCols(Gt, col_Gt, Head(soc)), col_K, "Gt")
         \o GtSocTriplets(Gt, Tail(soc), col_K + Head(soc) + 2, col_Gt + Head(soc))

\* G' (1,3): linear block, then the SOC blocks
GtTriplets(P) ==
    LET Gt == Transpose(P.G)
        col_K == P.num_var + P.num_eq
    IN Emplace(middleCols(Gt, 0, P.num_pc), col_K, "Gt")
       \o GtSocTriplets(Gt, P.so_cones, col_K + P.num_pc, P.num_pc)

\* -V (3,3), one SOC block starting at diag_idx = d
SocBlockTriplets(d, dim) ==
    [k \in 1..dim |-> <<d + (k - 1), d + (k - 1), "V">>]
    \o << <<d + dim, d + dim, "V">> >>
    \o [k \in 1..(dim - 1) |-> <<(d + dim) - dim + k, d + dim, "V">>]
    \o << <<d + dim + 1, d + dim + 1, "V">> >>
    \o [k \in 1..dim |-> <<(d + dim + 1) - dim - 1 + (k - 1), d + dim + 1, "V">>]

RECURSIVE SocTriplets(_, _)
SocTriplets(d, soc) ==
    IF soc = << >> THEN [triplets |-> << >>, diag_idx |-> d]
    ELSE LET rest == SocTriplets(d + Head(soc) + 2, Tail(soc))
         IN [triplets |-> SocBlockTriplets(d, Head(soc)) \o rest.triplets,
             diag_idx |-> rest.diag_idx]

\* -V (3,3): first identity block, then the SOC blocks
VTriplets(P) ==
    LET d == P.num_var + P.num_eq
        rest == SocTriplets(d + P.num_pc, P.so_cones)
    IN [triplets |-> [k \in 1..P.num_pc |-> <<d + (k - 1), d + (k - 1), "V">>] \o rest.triplets,
        diag_idx |-> rest.diag_idx]

\* K.setFromTriplets(..)
setFromTriplets(tr) ==
    [c \in {<<tr[i][1], tr[i][2]>> : i \in 1..Len(tr)} |->
        {tr[i][3] : i \in {j \in 1..Len(tr) : tr[j][1] = c[1] /\ tr[j][2] = c[2]}}]

setupKKT(P) ==
    LET V == VTriplets(P)
        K_triplets == RegTriplets(P) \o AtTriplets(P) \o GtTriplets(P) \o V.triplets
    IN [fn |-> "setupKKT",
        K_nonzeros |-> K_nonzeros(P),
        size |-> Len(K_triplets),
        diag_idx |-> V.diag_idx,
        K |-> setFromTriplets(K_triplets),
        pattern |-> DOMAIN setFromTriplets(K_triplets),
        created |-> setFromTriplets(K_triplets),
        written |-> {}]

\* K.coeffRef(row, col) = value for every coordinate of W: an existing entry
\* is overwritten, a missing one is inserted
coeffRef(K_, W, value) == [c \in DOMAIN K_ \cup W |-> IF c \in W THEN {value} ELSE K_[c]]

\* the coordinates initKKT writes for the SOC starting at diag_idx = d
initKKT_soc(d, dim) ==
    {<<d + k, d + k>> : k \in 0..(dim - 1)}
    \cup {<<d + dim, d + dim>>}
    \cup {<<(d + dim) - dim + k, d + dim>> : k \in 1..(dim - 1)}
    \cup {<<d + dim + 1, d + dim + 1>>}
    \cup {<<(d + dim + 1) - dim - 1, d + dim + 1>>}
    \cup {<<(d + dim + 1) - dim - 1 + k, d + dim + 1>> : k \in 1..(dim - 1)}

\* updateKKT's SOC block with the v column started at k = 0
updateKKT_soc_v_from_zero(d, dim) ==
    {<<d, d>>}
    \cup {<<d + k, d + k>> : k \in 1..(dim - 1)}
    \cup {<<d + dim, d + dim>>}
    \cup {<<(d + dim) - dim + k, d + dim>> : k \in 0..(dim - 1)}
    \cup {<<d + dim + 1, d + dim + 1>>}
    \cup {<<(d + dim + 1) - dim - 1, d + dim + 1>>}
    \cup {<<(d + dim + 1) - dim - 1 + k, d + dim + 1>> : k \in 1..(dim - 1)}

\* the coordinates updateKKT writes for the SOC starting at diag_idx = d
updateKKT_soc(d, dim) ==
    {<<d, d>>}
    \cup {<<d + k, d + k>> : k \in 1..(dim - 1)}
    \cup {<<d + dim, d + dim>>}
    \cup {<<(d + dim) - dim + k, d + dim>> : k \in 1..(dim - 1)}
    \cup {<<d + dim + 1, d + dim + 1>>}
    \cup {<<(d + dim + 1) - dim - 1, d + dim + 1>>}
    \cup {<<(d + dim + 1) - dim - 1 + k, d + dim + 1>> : k \in 1..(dim - 1)}

RECURSIVE KKT_soc(_, _, _)
KKT_soc(update, d, soc) ==
    IF soc = << >> THEN [written |-> {}, diag_idx |-> d]
    ELSE LET rest == KKT_soc(update, d + Head(soc) + 2, Tail(soc))
         IN [written |-> (IF update THEN updateKKT_soc(d, Head(soc))
                                    ELSE initKKT_soc(d, Head(soc))) \cup rest.written,
             diag_idx |-> rest.diag_idx]

\* the walk of initKKT (update = FALSE) and of updateKKT (update = TRUE):
\* LP cone diagonal, then the SOC blocks
KKT_walk(P, update) ==
    LET d == P.num_var + P.num_eq
        rest == KKT_soc(update, d + P.num_pc, P.so_cones)
    IN [written |-> {<<d + k, d + k>> : k \in 0..(P.num_pc - 1)} \cup rest.written,
        diag_idx |-> rest.diag_idx]

initKKT(P, o) ==
    LET w == KKT_walk(P, FALSE)
    IN [o EXCEPT !.fn = "initKKT", !.K = coeffRef(o.K, w.written, "initKKT"),
                 !.pattern = DOMAIN coeffRef(o.K, w.written, "initKKT"),
                 !.written = w.written, !.diag_idx = w.diag_idx]

updateKKT(P, o) ==
    LET w == KKT_walk(P, TRUE)
    IN [o EXCEPT !.fn = "updateKKT", !.K = coeffRef(o.K, w.written, "updateKKT"),
                 !.pattern = DOMAIN coeffRef(o.K, w.written, "updateKKT"),
                 !.written = w.written, !.diag_idx = w.diag_idx]

\* layouts: n variables, p equalities (A may be an empty 0 x 0 matrix when
\* p = 0), l LP rows, cones
KktVars == 1..2
KktEqs == 0..1
KktLps == 0..2
KktCones == {<< >>, <<1>>, <<2>>, <<3>>, <<1, 2>>, <<2, 2>>}
\* sparsity patterns of a rows x cols matrix: empty, full, a diagonal band,
\* the first column, the last row
Patterns(rows, cols) ==
    {{}, (0..(rows - 1)) \X (0..(cols - 1)),
     {<<i, i % cols>> : i \in 0..(rows - 1)},
     {<<i, 0>> : i \in 0..(rows - 1)},
     {<<i, j>> \in (0..(rows - 1)) \X (0..(cols - 1)) : i = rows - 1}}

InitKKT ==
    /\ pc = "call"
    /\ DriverAtRest
    /\ \E n \in KktVars, p \in KktEqs, l \in KktLps, soc \in KktCones :
         \E A_cols \in (IF p = 0 THEN {0, n} ELSE {n}) :
           \E A_ \in Patterns(p, A_cols), G_ \in Patterns(l + SumSeq(soc), n) :
              args = [fn |-> "setupKKT", P |-> Layout(n, p, A_cols, l, soc, A_, G_)]
    /\ out = NoCall

\* the constructor's setupKKT()
SetupKKTCall ==
    /\ pc = "call"
    /\ args.fn = "setupKKT"
    /\ out' = setupKKT(args.P)
    /\ pc' = "K_setup"
    /\ UNCHANGED <<driver_vars, args>>

\* solve(): initKKT()
InitKKTCall ==
    /\ pc = "K_setup"
    /\ out' = initKKT(args.P, out)
    /\ pc' = "K_init"
    /\ UNCHANGED <<driver_vars, args>>

\* an iteration's updateKKT()
UpdateKKTCall ==
    /\ pc \in {"K_init", "K_updated"}
    /\ out' = updateKKT(args.P, out)
    /\ pc' = "K_updated"
    /\ UNCHANGED <<driver_vars, args>>

NextKKT ==
    \/ SetupKKTCall
    \/ InitKKTCall
    \/ UpdateKKTCall

SpecKKT == InitKKT /\ [][NextKKT]_vars

\* ---- solveKKT: iterative refinement ----
\* settings.irerrfact
irerrfact == 6
\* largest settings.nitref the model follows
MaxNitref == 3
\* std::numeric_limits<double>::max()
DblMax == 2 * Unit
\* the norms nex, ney, nez of the residual of one pass
RefErrs == {0, 1, 10, 100, 1000}
\* (1 + ||rhs||) * settings.linsysacc
RefThresholds == {1, 20}

InitRefine ==
    /\ pc = "call"
    /\ DriverAtRest
    /\ args \in {[fn |-> "solveKKT", nitref |-> r, num_eq |-> p, error_threshold |-> th] :
                   r \in 0..MaxNitref, p \in EqCounts, th \in RefThresholds}
    /\ out = NoCall

\* x = ldlt.solve(rhs); nerr_prev = max; k_ref = 0.  applied counts the
\* corrections dx_ref that x holds; err0 is the error of the initial solve
\* and err the error of x, both as the first pass that sees them measures
\* them.
SolveKKTEnter ==
    /\ pc = "call"
    /\ args.fn = "solveKKT"
    /\ out' = [fn |-> "solveKKT", k_ref |-> 0, applied |-> 0, nerr_prev |-> DblMax,
               err0 |-> DblMax, err |-> DblMax, undone |-> FALSE]
    /\ pc' = "refine"
    /\ UNCHANGED <<driver_vars, args>>

\* one pass of the refinement loop, entered with k_ref <= settings.nitref
RefinePass ==
    /\ pc = "refine"
    /\ out.k_ref <= args.nitref
    /\ \E nex \in RefErrs, ney \in RefErrs, nez \in RefErrs :
         LET nerr == solveKKT_errors(args.num_eq, nex, ney, nez).nerr IN
         IF out.k_ref > 0 /\ nerr > out.nerr_prev
         THEN /\ out' = [out EXCEPT !.applied = @ - 1, !.k_ref = ToSize(@ - 1),
                                         !.err = out.nerr_prev, !.undone = TRUE]
              /\ pc' = "ret"
         ELSE IF \/ out.k_ref = ToSize(args.nitref - 1)
                 \/ nerr < args.error_threshold
                 \/ (out.k_ref > 0 /\ out.nerr_prev < irerrfact * nerr)
              THEN /\ pc' = "ret"
                   /\ out' = [out EXCEPT !.err = nerr,
                                         !.err0 = IF out.k_ref = 0 THEN nerr ELSE @]
              ELSE /\ out' = [out EXCEPT !.nerr_prev = nerr, !.applied = @ + 1,
                                         !.k_ref = ToSize(@ + 1), !.err = nerr,
                                         !.err0 = IF out.k_ref = 0 THEN nerr ELSE @]
                   /\ UNCHANGED pc
    /\ UNCHANGED <<driver_vars, args>>

\* the loop condition k_ref <= settings.nitref fails; return k_ref.  No pass
\* measured x after its last correction: its error is any of the errors
RefineEnd ==
    /\ pc = "refine"
    /\ out.k_ref > args.nitref
    /\ \E nerr \in RefErrs : out' = [out EXCEPT !.err = nerr]
    /\ pc' = "ret"
    /\ UNCHANGED <<driver_vars, args>>

NextRefine ==
    \/ SolveKKTEnter
    \/ RefinePass
    \/ RefineEnd

SpecRefine == InitRefine /\ [][NextRefine]_vars

\* ---- lineSearch: the loop over so_cones, cone by cone ----
\* layouts: l LP rows, then the cones
LsLps == 0..1
LsCones == {<<2>>, <<1, 2>>, <<2, 2>>}
\* entries of lambda, and of the directions ds and dz
LsLambdaVals == {Unit \div 2, Unit}
LsDirVals == {0, -2}

InitSocLoop ==
    /\ pc = "call"
    /\ DriverAtRest
    /\ \E l \in LsLps, dims \in LsCones :
         \E lam \in [1..(l + SumSeq(dims)) -> LsLambdaVals],
            d \in [1..(l + SumSeq(dims)) -> LsDirVals], both \in BOOLEAN :
              args = [fn |-> "lineSearch", num_pc |-> l, so_cones |-> dims,
                      lambda |-> Point(lam, lam), ds |-> d,
                      dz |-> IF both THEN d ELSE [i \in 1..(l + SumSeq(dims)) |-> 0]]
    /\ out = NoCall

\* LP cone, tau and kappa (dtau = dkap = 0: no bound); cone_start = num_pc.
\* cones lists what each pass of the loop did.
SocLoopEnter ==
    /\ pc = "call"
    /\ args.fn = "lineSearch" /\ "so_cones" \in DOMAIN args
    /\ out' = [fn |-> "lineSearch",
               alpha |-> MinSet({AlphaSat}
                                \cup {StepTo(args.lambda.s[i], args.ds[i]) : i \in 1..args.num_pc}
                                \cup {StepTo(args.lambda.z[i], args.dz[i]) : i \in 1..args.num_pc}),
               k |-> 1, cone_start |-> args.num_pc + 1, cones |-> << >>]
    /\ pc' = "soc"
    /\ UNCHANGED <<driver_vars, args>>

\* one pass of the loop: `continue` when lknorm2 <= 0, else conic_step (read
\* in its own initializer) and the update of alpha, then cone_start += dim
SocLoopPass ==
    /\ pc = "soc"
    /\ out.k <= Len(args.so_cones)
    /\ LET dim == args.so_cones[out.k]
           cs == out.cone_start
       IN IF ~LambdaPositive(args.lambda, cs, dim)
          THEN out' = [out EXCEPT !.k = @ + 1,
                                  !.cones = Append(@, [start |-> cs, skipped |-> TRUE,
                                                       bound |-> AlphaSat])]
          ELSE \E uninit \in UninitSteps :
                 LET inv_conic_step == Min2(uninit,
                                            Min2(ConeStep(args.lambda.z, args.dz, cs, dim),
                                                 ConeStep(args.lambda.s, args.ds, cs, dim)))
                 IN out' = [out EXCEPT !.k = @ + 1,
                                       !.alpha = Min2(inv_conic_step, @),
                                       !.cone_start = @ + dim,
                                       !.cones = Append(@, [start |-> cs, skipped |-> FALSE,
                                                            bound |-> inv_conic_step])]
    /\ UNCHANGED <<pc, driver_vars, args>>

\* alpha = std::clamp(alpha, stepmin, stepmax); return alpha
SocLoopReturn ==
    /\ pc = "soc"
    /\ out.k > Len(args.so_cones)
    /\ out' = [out EXCEPT !.alpha = Clamp(@, stepmin, stepmax)]
    /\ pc' = "ret"
    /\ UNCHANGED <<driver_vars, args>>

NextSocLoop ==
    \/ SocLoopEnter
    \/ SocLoopPass
    \/ SocLoopReturn

SpecSocLoop == InitSocLoop /\ [][NextSocLoop]_vars

\* ---- solveKKT: copying the solution into dx, dy, dz ----
\* v.segment(start, cnt), positions counted from 0
segment(v, start, cnt) == [k \in 1..cnt |-> v[start + k]]

\* the copy loop over so_cones without the two expansion slots behind each
\* cone: x_index += sc.dim
RECURSIVE CopyCones_no_slots(_, _, _, _)
CopyCones_no_slots(x, soc, dz_index, x_index) ==
    IF soc = << >> THEN [dz |-> << >>, dz_index |-> dz_index, x_index |-> x_index]
    ELSE LET rest == CopyCones_no_slots(x, Tail(soc), dz_index + Head(soc), x_index + Head(soc))
         IN [rest EXCEPT !.dz = segment(x, x_index, Head(soc)) \o @]

\* dz.segment(dz_index, sc.dim) = x.segment(x_index, sc.dim);
\* dz_index += sc.dim; x_index += sc.dim + 2;
RECURSIVE CopyCones(_, _, _, _)
CopyCones(x, soc, dz_index, x_index) ==
    IF soc = << >> THEN [dz |-> << >>, dz_index |-> dz_index, x_index |-> x_index]
    ELSE LET rest == CopyCones(x, Tail(soc), dz_index + Head(soc), x_index + Head(soc) + 2)
         IN [rest EXCEPT !.dz = segment(x, x_index, Head(soc)) \o @]

\* "Copy solution into arrays"
CopySolution(P, x) ==
    LET cones == CopyCones(x, P.so_cones, P.num_pc, P.num_var + P.num_eq + P.num_pc)
    IN [dx |-> segment(x, 0, P.num_var),
        dy |-> segment(x, P.num_var, P.num_eq),
        dz |-> segment(x, P.num_var + P.num_eq, P.num_pc) \o cones.dz,
        dz_index |-> cones.dz_index,
        x_index |-> cones.x_index]

\* the walk of the error term ez over the cones: the indices it ends at and
\* the positions of ez it sets to 0
RECURSIVE ErrorWalk(_, _, _, _)
ErrorWalk(soc, ez_index, Gdx_index, dz_index) ==
    IF soc = << >>
    THEN [ez_index |-> ez_index, Gdx_index |-> Gdx_index, dz_index |-> dz_index, zeroed |-> {}]
    ELSE LET dim == Head(soc)
             rest == ErrorWalk(Tail(soc), ez_index + dim + 1 + 1, Gdx_index + dim,
                               (dz_index + (dim - 1)) + 1)
         IN [rest EXCEPT !.zeroed = {ez_index + dim, ez_index + dim + 1} \cup @]

\* x = ldlt.solve(rhs): entry i of x carries the mark i
InitCopy ==
    /\ pc = "call"
    /\ DriverAtRest
    /\ \E n \in KktVars, p \in KktEqs, l \in KktLps, soc \in KktCones :
         args = [fn |-> "solveKKT", P |-> Layout(n, p, n, l, soc, {}, {})]
    /\ out = NoCall

\* a pass of the refinement loop up to the error term: copy, then the walk
\* over ez
CopyPass ==
    /\ pc \in {"call", "refined"}
    /\ args.fn = "solveKKT" /\ "P" \in DOMAIN args
    /\ LET x == IF pc = "call" THEN [i \in 1..args.P.dim_K |-> i] ELSE out.x
           copy == CopySolution(args.P, x)
           walk == ErrorWalk(args.P.so_cones, args.P.num_pc, args.P.num_pc, args.P.num_pc)
       IN out' = [fn |-> "solveKKT", x |-> x, dx |-> copy.dx, dy |-> copy.dy, dz |-> copy.dz,
                  dz_index |-> copy.dz_index, x_index |-> copy.x_index,
                  ez_index |-> walk.ez_index, Gdx_index |-> walk.Gdx_index,
                  ez_dz_index |-> walk.dz_index, zeroed |-> walk.zeroed,
                  passes |-> IF pc = "call" THEN 1 ELSE out.passes + 1]
    /\ pc' = "copied"
    /\ UNCHANGED <<driver_vars, args>>

\* dx_ref = ldlt.solve(e); x += dx_ref: every entry of x changes its mark
CopyRefine ==
    /\ pc = "copied"
    /\ out.passes < 2
    /\ out' = [out EXCEPT !.x = [i \in 1..args.P.dim_K |-> @[i] + args.P.dim_K]]
    /\ pc' = "refined"
    /\ UNCHANGED <<driver_vars, args>>

\* after the loop: copy the solution again and return
CopyReturn ==
    /\ pc = "copied"
    /\ LET copy == CopySolution(args.P, out.x)
       IN out' = [out EXCEPT !.dx = copy.dx, !.dy = copy.dy, !.dz = copy.dz,
                             !.dz_index = copy.dz_index, !.x_index = copy.x_index]
    /\ pc' = "ret"
    /\ UNCHANGED <<driver_vars, args>>

NextCopy ==
    \/ CopyPass
    \/ CopyRefine
    \/ CopyReturn

SpecCopy == InitCopy /\ [][NextCopy]_vars

\* ---- updateScalings on any s and z ----
\* entries of s and z: LP entry, cone head, cone tail
ScalLps == {-1, 0, Unit}
ScalHeads == {-Unit, Unit \div 2, Unit}
ScalTails == {0, Unit \div 2}
ScalPoints == {Vec(Prof(a, h, tl)) : a \in ScalLps, h \in ScalHeads, tl \in ScalTails}

InitScalings ==
    /\ pc = "call"
    /\ DriverAtRest
    /\ args \in {[fn |-> "updateScalings", s |-> sv, z |-> zv] :
                   sv \in ScalPoints, zv \in ScalPoints}
    /\ out = NoCall

\* updateScalings(s, z, lambda): scale(z, lambda) runs only on the way to
\* `return true`
UpdateScalingsCall ==
    /\ pc = "call"
    /\ args.fn = "updateScalings"
    /\ out' = [fn |-> "updateScalings", ret |-> updateScalings(args.s, args.z),
               lambda_computed |-> updateScalings(args.s, args.z)]
    /\ pc' = "ret"
    /\ UNCHANGED <<driver_vars, args>>

NextScalings == UpdateScalingsCall

SpecScalings == InitScalings /\ [][NextScalings]_vars

\* ---- scale2add1 and scale2add2: y += W^2 * x ----
\* One LP entry and one cone sc of dimension sc.dim <= 2; x and y have the
\* expanded length 1 + sc.dim + 2; plain integers.

\* W_squared of scale2add1, rows and columns counted from 0, as the
\* assignments leave it
W_squared(sc, r, c) ==
    LET dim == sc.dim + 2
        entry == IF (c = dim - 1 /\ r = 0) \/ (r = dim - 1 /\ c = 0) THEN sc.u0
                 ELSE IF (c = dim - 1 /\ r \in 1..(sc.dim - 1))
                         \/ (r = dim - 1 /\ c \in 1..(sc.dim - 1)) THEN sc.u1
                 ELSE IF (c = dim - 2 /\ r \in 1..(sc.dim - 1))
                         \/ (r = dim - 2 /\ c \in 1..(sc.dim - 1)) THEN sc.v1
                 ELSE IF r = dim - 1 /\ c = dim - 1 THEN -1
                 ELSE IF r = 0 /\ c = 0 THEN sc.d1
                 ELSE IF r = c THEN 1 ELSE 0
    IN sc.eta_square * entry

RECURSIVE RowTimes(_, _, _, _, _)
RowTimes(sc, r, x, start, c) ==
    IF c < 0 THEN 0
    ELSE W_squared(sc, r, c) * x[start + c + 1] + RowTimes(sc, r, x, start, c - 1)

scale2add1(lp_v, sc, x, y) ==
    [i \in 1..Len(y) |->
        IF i = 1 THEN y[i] + lp_v * x[i]
        ELSE y[i] + RowTimes(sc, i - 2, x, 1, sc.dim + 1)]

scale2add2(lp_v, sc, x, y) ==
    LET i1 == 2
        i2 == i1 + 1
        i3 == i2 + sc.dim - 1
        i4 == i3 + 1
        v1x3_plus_u1x4 == sc.v1 * x[i3] + sc.u1 * x[i4]
        qtx2 == IF sc.dim = 2 THEN sc.q * x[i2] ELSE 0
    IN [i \in 1..Len(y) |->
          IF i = 1 THEN y[i] + lp_v * x[i]
          ELSE IF i = i1 THEN y[i] + sc.eta_square * (sc.d1 * x[i1] + sc.u0 * x[i4])
          ELSE IF i = i3 THEN y[i] + sc.eta_square * (sc.v1 * qtx2 + x[i3])
          ELSE IF i = i4 THEN sc.eta_square * (sc.u0 * x[i1] + sc.u1 * qtx2 - x[i4])
          ELSE y[i] + sc.eta_square * (x[i] + v1x3_plus_u1x4 * sc.q)]

\* scaling states: eta_square, d1, u0, u1, v1 and the entry of q
ScaleCones ==
    {[dim |-> d, eta_square |-> e, d1 |-> 2, u0 |-> 3, u1 |-> 1, v1 |-> 1, q |-> qq] :
        d \in 1..2, e \in 1..2, qq \in 1..2}
ScaleEntries == {0, 1}

InitScale2Add ==
    /\ pc = "call"
    /\ DriverAtRest
    /\ \E sc \in ScaleCones :
         \E xv \in [1..(1 + sc.dim + 2) -> ScaleEntries], y0 \in ScaleEntries :
            args = [fn |-> "scale2add", lp_v |-> 2, sc |-> sc, x |-> xv,
                    y |-> [i \in 1..(1 + sc.dim + 2) |-> y0]]
    /\ out = NoCall

\* scale2add1(x, y) on a copy of y
Scale2Add1Call ==
    /\ pc = "call"
    /\ args.fn = "scale2add"
    /\ out' = [fn |-> "scale2add", y1 |-> scale2add1(args.lp_v, args.sc, args.x, args.y)]
    /\ pc' = "slow"
    /\ UNCHANGED <<driver_vars, args>>

\* scale2add2(x, y) on another copy of y
Scale2Add2Call ==
    /\ pc = "slow"
    /\ out' = [fn |-> "scale2add", y1 |-> out.y1,
               y2 |-> scale2add2(args.lp_v, args.sc, args.x, args.y)]
    /\ pc' = "ret"
    /\ UNCHANGED <<driver_vars, args>>

NextScale2Add ==
    \/ Scale2Add1Call
    \/ Scale2Add2Call

SpecScale2Add == InitScale2Add /\ [][NextScale2Add]_vars

(***************************************************************************)
(* Properties                                                              *)
(***************************************************************************)

\* C1: tau > 0 and kappa > 0 hold after the initialisation and after every
\* update of the iterate, whatever the direction, also when the line search
\* result was raised to stepmin by the clamp.
C1_TauKappaPositive ==
    pc \in {"loop", "stats", "check", "scalings", "kkt", "step", "backscale", "returned"}
        => (~isnan /\ tau > 0 /\ kap > 0)

\* C2: every accepted iterate (the initial one and each updated one) has
\* every LP entry of s and z positive and every second-order cone residual
\* u0^2 - ||u1||^2 of s and z positive.
C2_IterateStrictlyInCone ==
    pc \in {"loop", "stats", "check", "scalings", "kkt", "step", "backscale", "returned"}
        => /\ ~isnan
           /\ \A i \in LpRows : s[i] > 0 /\ z[i] > 0
           /\ \A k \in Cones : ResidualPositive(s, k) /\ ResidualPositive(z, k)

\* C3: the loop runs at most settings.maxit times: info.iter never exceeds
\* maxit and no iteration is begun with info.iter = maxit.
C3_AtMostMaxitIterations ==
    /\ info.iter <= maxit
    /\ pc \in {"stats", "check", "scalings", "kkt", "step"} => info.iter < maxit

\* C4: once the check has raised the primal or the dual infeasibility flag
\* the driver stops at that iteration: it updates no scaling, solves no KKT
\* system and takes no step; it is on its way out of the loop.
C4_InfeasibilityStopsDriver ==
    (info.pinf \/ info.dinf) => pc \in {"backscale", "returned"}

\* C5: when updateScalings reports failure the driver aborts the iteration:
\* it neither updates the KKT matrix nor solves nor steps nor begins another
\* iteration.
C5_ScalingFailureAborts ==
    ~upd_ok => pc \in {"backscale", "returned"}

\* C6: when the LDLT factorization fails (the initial one or the one of
\* updateKKT) solve returns normally; the process is not terminated.
C6_FactorizationFailureReturns ==
    msg = "Failed to factorize matrix!" => pc \in {"backscale", "returned"}

\* C7: when updateStatistics finds pcost >= 0 and dcost <= 0 (relgap has no
\* value) it only records that; the iteration goes on to the termination
\* check and solve is not ended.
C7_UndefinedRelgapContinues ==
    msg = "relgap is NaN" => pc # "exited"

\* C8: when the loop ends on the iteration count and the last iteration's
\* statistics fail the tight optimality test but pass the relaxed one, solve
\* reports the inaccurate ("Close to") variant.
C8_InaccurateReportedAtLastIteration ==
    ( /\ pc = "returned" /\ ~done /\ info.iter > 0 /\ ~info.pinf /\ ~info.dinf
      /\ (-cx > 0 \/ -by - hz >= -abstol_inacc)
      /\ info.pres < feastol_inacc /\ info.dres < feastol_inacc
      /\ (info.gap < abstol_inacc \/ info.relgap < reltol_inacc) )
        => msg = "Close to OPTIMAL"

\* C9: checkExitConditions returns true exactly when (-cx > 0 or
\* -by - hz >= -abstol) and pres < feastol and dres < feastol and
\* (gap < abstol or relgap < reltol) for the tolerance set of its argument;
\* then both infeasibility flags are cleared, also when an infeasibility test
\* holds as well; the dual test is looked at only when this one fails.
C9_OptimalExactlyWhenTestHolds ==
    pc # "check" =>
        LET f == IF reduced THEN feastol_inacc ELSE feastol
            a == IF reduced THEN abstol_inacc ELSE abstol
            r == IF reduced THEN reltol_inacc ELSE reltol
            optimal == /\ (-cx > 0 \/ -by - hz >= -a)
                       /\ info.pres < f /\ info.dres < f
                       /\ (info.gap < a \/ info.relgap < r)
            dual == info.dinfres.has /\ info.dinfres.val < f /\ tau < kap
        IN /\ done <=> optimal
           /\ optimal => /\ ~info.pinf /\ ~info.dinf /\ pc = "backscale"
                         /\ msg = (IF reduced THEN "Close to OPTIMAL" ELSE "OPTIMAL")
           /\ (~optimal /\ dual) => (info.dinf /\ ~info.pinf /\ pc = "scalings")

\* an iterate that passes the optimality test and the dual infeasibility test
\* at once has been reported optimal
C9_Witness ==
    /\ pc = "backscale" /\ done /\ msg = "OPTIMAL"
    /\ info.dinfres.has /\ info.dinfres.val < feastol /\ tau < kap
    /\ ~info.dinf

\* C10: primal infeasibility is declared only when pinfres is present and
\* below feastol; with pinfres absent the test is not satisfied and the
\* absent value is never read.
C10_AbsentPinfresNeverRead ==
    pc # "check" =>
        /\ msg # "bad_optional_access"
        /\ msg \in {"PRIMAL INFEASIBLE", "Close to PRIMAL INFEASIBLE"} =>
               (info.pinfres.has
                /\ info.pinfres.val < (IF reduced THEN feastol_inacc ELSE feastol))

\* C11: lineSearch returns alpha with stepmin <= alpha <= stepmax, and alpha
\* is the minimum of the LP bound, the bounds -tau/dtau and -kap/dkap (each
\* only when positive) and the bounds of the second-order cones, clamped to
\* [stepmin, stepmax].
C11_LineSearchIsClampedMinimum ==
    (pc = "ret" /\ out.fn = "lineSearch") =>
        LET lam == args.lambda
            ds == Vec(args.dir.ds)
            dz == Vec(args.dir.dz)
            bounds == {AlphaSat}
                      \cup {StepTo(lam.s[i], ds[i]) : i \in LpRows}
                      \cup {StepTo(lam.z[i], dz[i]) : i \in LpRows}
                      \cup {StepTo(args.tau, args.dir.dtau), StepTo(args.kap, args.dir.dkap)}
                      \cup {ConeStep(lam.s, ds, cone_start(k), soc_dims[k]) : k \in Cones}
                      \cup {ConeStep(lam.z, dz, cone_start(k), soc_dims[k]) : k \in Cones}
        IN /\ stepmin <= out.alpha /\ out.alpha <= stepmax
           /\ out.alpha = Clamp(MinSet(bounds), stepmin, stepmax)

\* C12: construction fails whenever A and G have different column counts, or
\* soc_dims has a non-positive entry, or the sum of soc_dims exceeds m; so a
\* constructed solver has l >= 0 and l + sum(q_k) = m, l not wrapped around.
C12_InvalidDimensionsRejected ==
    (pc = "ret" /\ out.fn = "ECOSEigen" /\ out.constructed) =>
        /\ (args.A_cols > 0 /\ args.G_cols > 0) => args.A_cols = args.G_cols
        /\ \A i \in 1..Len(args.soc_dims) : args.soc_dims[i] > 0
        /\ SumSeq(args.soc_dims) <= args.G_rows
        /\ ToIndex(out.num_pc) >= 0
        /\ out.num_pc + SumSeq(args.soc_dims) = out.num_ineq

\* C13: with p = 0 neither computeResiduals nor updateStatistics nor the
\* error terms of solveKKT read A, transpose A or form a product with A or
\* its transpose; hresy and by are 0 and the primal residual is that of rz.
C13_NoUseOfAWithoutEqualities ==
    (pc = "ret" /\ out.fn \in {"computeResiduals", "updateStatistics", "solveKKT"}
                /\ args.num_eq = 0) =>
        /\ out.touched = {}
        /\ out.fn = "computeResiduals" => (out.hresy = 0 /\ out.by = 0)
        /\ out.fn = "updateStatistics" => out.pres = args.v

\* C14 as stated: every row of A or G that is entirely zero, in the LP block
\* or inside a second-order cone, has the accumulated factor 1 after any
\* number of passes.
C14_ZeroRowFactorIsOne ==
    (pc \in {"equil", "ret"} /\ out.fn = "setEquilibration") =>
        /\ \A i \in EqRows : IsZeroRow(args.A[i]) => out.A_equil[i] = 0
        /\ \A i \in Rows : IsZeroRow(args.G[i]) => out.G_equil[i] = 0

\* C14, amended: a zero row of A or of the LP block of G has the accumulated
\* factor 1 after any number of passes; a zero row inside a second-order
\* cone has the factor of its cone, which all rows of the cone share, and
\* that is 1 when every row of the cone is zero.
C14_ZeroRowFactorOutsideCones ==
    (pc \in {"equil", "ret"} /\ out.fn = "setEquilibration") =>
        /\ \A i \in EqRows : IsZeroRow(args.A[i]) => out.A_equil[i] = 0
        /\ \A i \in LpRows : IsZeroRow(args.G[i]) => out.G_equil[i] = 0
        /\ \A i \in Rows \ LpRows :
              /\ out.G_equil[i] = out.G_equil[BlockStart(i)]
              /\ (\A r \in BlockStart(i)..BlockEnd(i) : IsZeroRow(args.G[r]))
                    => out.G_equil[i] = 0

\* all passes done on a G whose LP row and cone tail are zero and whose cone
\* head is not: the LP row has factor 1, the tail row the factor of the cone
C14_Witness ==
    /\ pc = "ret" /\ out.fn = "setEquilibration" /\ out.iter = equil_iters
    /\ \E i \in LpRows : IsZeroRow(args.G[i]) /\ out.G_equil[i] = 0
    /\ \E k \in Cones : \E i \in TailRows(k) :
          /\ IsZeroRow(args.G[i]) /\ ~IsZeroRow(args.G[cone_start(k)])
          /\ out.G_equil[i] # 0

\* C15: with alpha = max(-gamma, max of -r_i over the LP entries, max over
\* the cones of ||r_1|| - r_0), bringToCone returns s = r when alpha <= 0, and
\* otherwise s = r + (1 + alpha) on every LP entry and every cone head, the
\* other entries being those of r.
C15_BringToConeKeepsInteriorPoint ==
    (pc = "ret" /\ out.fn = "bringToCone") =>
        LET r == args.r
            alpha == MaxSet({-gamma} \cup {-r[i] : i \in LpRows}
                                    \cup {TailNorm(r, k) - r[cone_start(k)] : k \in Cones})
        IN IF alpha <= 0
           THEN out.s = r
           ELSE out.s = [i \in Rows |-> IF i \in LpRows \/ IsHead(i)
                                        THEN r[i] + Unit + alpha ELSE r[i]]

\* C16: conicDivision reports failure to its caller whenever a second-order
\* cone block of u has rho = u0^2 - ||u1||^2 <= 0, and it never divides by a
\* rho that is not positive.
C16_DivisionReportsNotInCone ==
    (pc = "ret" /\ out.fn = "conicDivision") =>
        \A k \in Cones :
            Rho(args.u, cone_start(k), soc_dims[k]) <= 0 =>
                /\ out.reported
                /\ out.v[cone_start(k)].den > 0

\* C17: in a run of solve the factorizer is driven in order: analyzePattern
\* once and before every factorize; one factorize before the two initial
\* solves and one in each iteration that goes past the termination check,
\* after updateKKT rewrote K; every ldlt.solve after a successful factorize
\* of K's current values.
C17_LdltDrivenInOrder ==
    /\ ~ldlt.misuse
    /\ pc \notin {"start", "call", "ret", "equil"} => ldlt.analyzePattern = 1
    /\ pc \in {"loop", "stats", "check", "scalings", "kkt", "backscale", "returned"} =>
          (ldlt.factorize = info.iter + 1 /\ ldlt.solve = 2 + 3 * info.iter)
    /\ pc = "step" =>
          (ldlt.current /\ ldlt.factorize = info.iter + 2 /\ ldlt.solve = 2 + 3 * info.iter)

\* the second iteration, past its factorization: three factorizations, five
\* solves so far
C17_Witness ==
    /\ pc = "step" /\ info.iter = 1
    /\ ldlt.analyzePattern = 1 /\ ldlt.factorize = 3 /\ ldlt.solve = 5
    /\ ldlt.current /\ ~ldlt.misuse

\* C18: every coordinate initKKT and updateKKT write is an upper-triangular
\* coordinate of the V-block setupKKT created: the pattern of K stays as
\* created, and the regularization diagonals and the A' and G' entries keep
\* what setupKKT stored.
C18_WritesStayInVBlock ==
    pc \in {"K_init", "K_updated"} =>
       /\ \A c \in out.written :
             /\ c[1] <= c[2]
             /\ c \in DOMAIN out.created
             /\ out.created[c] = {"V"}
             /\ c[1] >= args.P.num_var + args.P.num_eq
       /\ out.pattern = DOMAIN out.created
       /\ \A c \in DOMAIN out.created :
             out.created[c] # {"V"} => out.K[c] = out.created[c]

\* two cones of dimension 2 behind two LP rows, A and G with stored entries,
\* after updateKKT rewrote the block
C18_Witness ==
    /\ pc = "K_updated"
    /\ args.P.so_cones = <<2, 2>> /\ args.P.num_pc = 2 /\ args.P.num_eq = 1
    /\ args.P.A # {} /\ args.P.G # {}
    /\ Cardinality(out.written) = 2 + 7 + 7
    /\ \A c \in out.written : out.K[c] = {"updateKKT"}
    /\ \E c \in DOMAIN out.K : out.K[c] = {"Gt"}

\* C19: for every layout with l + sum(q) = m setupKKT emits
\* nnz(A) + nnz(G) + n + p + l + sum(3 q + 1) triplets at pairwise distinct
\* coordinates, so K has the reserved number of nonzeros, and the walk over
\* the diagonal of the V-block ends at dim_K = n + p + m + 2 ncones.
C19_TripletCount ==
    (pc = "K_setup" /\ args.P.num_pc + SumSeq(args.P.so_cones) = args.P.num_ineq) =>
       /\ out.size = Cardinality(args.P.A) + Cardinality(args.P.G) + args.P.num_var
                     + args.P.num_eq + args.P.num_pc + SocNonzeros(args.P.so_cones)
       /\ out.size = out.K_nonzeros
       /\ Cardinality(out.pattern) = out.K_nonzeros
       /\ out.diag_idx = args.P.dim_K
       /\ args.P.dim_K = args.P.num_var + args.P.num_eq + args.P.num_ineq
                         + 2 * Len(args.P.so_cones)

\* cones of dimension 1 and 2 behind an LP row, an equality row, A and G full
C19_Witness ==
    /\ pc = "K_setup"
    /\ args.P.so_cones = <<1, 2>> /\ args.P.num_pc = 1 /\ args.P.num_eq = 1
    /\ args.P.num_var = 2
    /\ Cardinality(args.P.A) = 2 /\ Cardinality(args.P.G) = 8
    /\ out.size = 2 + 8 + 2 + 1 + 1 + 4 + 7
    /\ Cardinality(out.pattern) = 25
    /\ out.diag_idx = 2 + 1 + 4 + 4

C22_ConicStepOfTheConeAlone ==
    (pc \in {"soc", "ret"} /\ out.fn = "lineSearch") =>
       \A k \in 1..Len(out.cones) :
          ~out.cones[k].skipped =>
             out.cones[k].bound =
                Min2(ConeStep(args.lambda.z, args.dz, out.cones[k].start, args.so_cones[k]),
                     ConeStep(args.lambda.s, args.ds, out.cones[k].start, args.so_cones[k]))

\* C23: skipping a cone whose lambda residual is <= 0 affects that cone
\* only: every cone k is evaluated on the rows starting at l + sum of q_j
\* for j < k.
C23_EveryConeOnItsOwnRows ==
    (pc \in {"soc", "ret"} /\ out.fn = "lineSearch") =>
       \A k \in 1..Len(out.cones) :
          out.cones[k].start = args.num_pc + SumSeq(SubSeq(args.so_cones, 1, k - 1)) + 1

\* C24: for every cone layout dz has m entries in cone order: the LP entries
\* come from positions n+p .. n+p+l-1 of the solution, the entries of cone k
\* from the positions starting at n+p+l + sum over j < k of (q_j + 2); no
\* expansion slot is copied, and the walks end at m, dim_K and m + 2 ncones.
C24_DzSkipsExpansionSlots ==
    (pc \in {"copied", "ret"} /\ out.fn = "solveKKT") =>
       LET P == args.P
           soc == P.so_cones
           first(k) == SumSeq(SubSeq(soc, 1, k - 1))
           base == P.num_var + P.num_eq + P.num_pc
           slots == {base + first(k) + 2 * (k - 1) + soc[k] + e : k \in 1..Len(soc), e \in 1..2}
       IN /\ Len(out.dz) = P.num_ineq
          /\ \A i \in 1..P.num_pc : out.dz[i] = out.x[P.num_var + P.num_eq + i]
          /\ \A k \in 1..Len(soc) : \A j \in 1..soc[k] :
                out.dz[P.num_pc + first(k) + j] = out.x[base + first(k) + 2 * (k - 1) + j]
          /\ \A i \in slots : \A j \in 1..Len(out.dz) : out.dz[j] # out.x[i]
          /\ out.dz_index = P.num_ineq /\ out.ez_dz_index = P.num_ineq
          /\ out.Gdx_index = P.num_ineq
          /\ out.x_index = P.dim_K
          /\ out.ez_index = P.num_ineq + 2 * Len(soc)
          /\ out.zeroed = {i - base - 1 + P.num_pc : i \in slots}

\* returned after one refinement, two cones behind two LP rows and an
\* equality: dz holds the refined entries 4, 5, 6, 7, 10, 11 of x
C24_Witness ==
    /\ pc = "ret" /\ out.fn = "solveKKT" /\ "dz" \in DOMAIN out
    /\ out.passes = 2
    /\ args.P.so_cones = <<2, 2>> /\ args.P.num_pc = 2 /\ args.P.num_eq = 1
    /\ args.P.num_var = 1
    /\ out.dz = <<3 + 12, 4 + 12, 5 + 12, 6 + 12, 9 + 12, 10 + 12>>

\* C25: with reduced_accuracy = true checkExitConditions tests against the
\* _inacc tolerances and reports each of its three outcomes as the "Close to"
\* variant; with reduced_accuracy = false it tests against the tight
\* tolerances and reports the exact variant.
C25_CloseToExactlyWhenReduced ==
    (pc \in {"backscale", "scalings"} /\ msg # "") =>
        LET f == IF reduced THEN feastol_inacc ELSE feastol
        IN /\ reduced => msg \in {"Close to OPTIMAL", "Close to UNBOUNDED",
                                  "Close to PRIMAL INFEASIBLE"}
           /\ ~reduced => msg \in {"OPTIMAL", "UNBOUNDED", "PRIMAL INFEASIBLE"}
           /\ info.dinf => (info.dinfres.has /\ info.dinfres.val < f)

\* C26: updateScalings returns false, lambda not computed, whenever some LP
\* entry of s or z is <= 0 or some cone of s or z has a head that is not
\* greater than the norm of its tail (negative heads included); it returns
\* true only when every LP entry and every cone of s and z is strictly
\* inside its cone.
C26_FalseOutsideTheCone ==
    (pc = "ret" /\ out.fn = "updateScalings") =>
        LET inside(u) == /\ \A i \in LpRows : u[i] > 0
                         /\ \A k \in Cones : u[cone_start(k)] > TailNorm(u, k)
        IN /\ out.ret <=> (inside(args.s) /\ inside(args.z))
           /\ ~out.ret => ~out.lambda_computed

\* C27: at the termination check of every iteration pinfres is present only
\* if (hz + by)/max(ny + nz, 1) < -reltol holds for the current iterate, and
\* dinfres only if cx/max(nx, 1) < -reltol does: a value left by an earlier
\* iteration is not before the infeasibility tests.
C27_InfeasibilityResidualsAreCurrent ==
    pc = "check" =>
       /\ info.pinfres.has => \E nyz \in NormVals : hz + by < -reltol * nyz
       /\ info.dinfres.has => \E nx \in NormVals : cx < -reltol * nx

\* C28: scale2add1 and scale2add2 compute the same y += W^2 * x: for every
\* scaling state, every expanded x and every initial y the two results are
\* equal in every position, the two expansion slots of the cone included.
C28_SlowAndFastAgree ==
    (pc = "ret" /\ out.fn = "scale2add") =>
        \A i \in 1..Len(args.y) : out.y1[i] = out.y2[i]

====
